---- MODULE Spec2Model ----
(***************************************************************************)
(* QTodoTxt2, qtodotxt/controllers/main_controller.py: the MainController  *)
(* session (backing task list of the bound File, the derived visible list, *)
(* the modified flag, the file observer) as a state machine.               *)
(*                                                                         *)
(* Task objects live in `heap` (identity -> parsed line and the number of  *)
(* connections of its `modified` signal to _taskModified); the lists hold  *)
(* identities, as the Python lists hold references.  tasklib, lib.file and *)
(* lib.filters are not part of the sources at hand: File, FileObserver,    *)
(* filterTasks and the filter predicates follow the written specification. *)
(***************************************************************************)
EXTENDS Integers, Sequences, FiniteSets, TLC

\* ------------------------------------------------------------------ bounds
\* longest backing / visible list the controller specification builds
MaxTasks == 3
\* number of handler invocations explored from construction
MaxOps == 4
\* longest backing list the filter specification starts from
MaxFilterTasks == 3

\* ------------------------------------------------------------------ values
NoFile == ""
Paths == {"A", "B"}
\* what a path holds: the lines of a readable file, or nothing readable
Readable(ls) == [ok |-> TRUE, lines |-> ls]
Unreadable == [ok |-> FALSE, lines |-> <<>>]

\* one character of a task text; the text filter ignores case
Lower == [c \in {"a", "A", "b", "B"} |-> IF c \in {"a", "A"} THEN "a" ELSE "b"]
LowerSeq(t) == [i \in 1..Len(t) |-> Lower[t[i]]]

\* a parsed task line: what the filters read of a task
Line(text, complete, future, project) ==
    [text |-> text, complete |-> complete, future |-> future, project |-> project]

\* every combination of complete, future-due and project membership; the text
\* alternates so that it is independent of each of them
AllLines ==
    {Line(IF (c = f) = p THEN <<"A", "b">> ELSE <<"b">>, c, f, p) :
        c \in BOOLEAN, f \in BOOLEAN, p \in BOOLEAN}

SearchTexts == {<<>>, <<"a">>}

\* ------------------------------------------------------------------ filters
CompleteTasksFilter == [kind |-> "Complete"]
IncompleteTasksFilter == [kind |-> "Incomplete"]
FutureFilter == [kind |-> "Future"]
ProjectFilter == [kind |-> "Project"]
SimpleTextFilter(txt) == [kind |-> "SimpleText", text |-> txt]

IsSubstring(sub, txt) ==
    \E i \in 0..(Len(txt) - Len(sub)) : SubSeq(txt, i + 1, i + Len(sub)) = sub

isMatch(f, line) ==
    CASE f.kind = "Complete" -> line.complete
      [] f.kind = "Incomplete" -> ~line.complete
      [] f.kind = "Future" -> ~line.future
      [] f.kind = "Project" -> line.project
      [] f.kind = "SimpleText" -> IsSubstring(LowerSeq(f.text), LowerSeq(line.text))

\* filters = None is the empty set: both leave the tasks as they are
filterTasks(filters, ts, h) ==
    IF filters = {} THEN ts
    ELSE SelectSeq(ts, LAMBDA id : \A f \in filters : isMatch(f, h[id].line))

\* the filter of one node of the filters tree, as filterRequest gets it
NodeFilters == {CompleteTasksFilter, IncompleteTasksFilter, ProjectFilter}
\* the selections of no node or of several, as _onFilterSelectionChanged gets them
FilterSets ==
    {{}, {CompleteTasksFilter, ProjectFilter}, {IncompleteTasksFilter, ProjectFilter}}

\* ------------------------------------------------------------------ state
VARIABLES
    fileTasks,      \* self._file.tasks: the backing list (task identities)
    fileFilename,   \* self._file.filename, NoFile for an unbound File()
    tasksList,      \* self._tasksList: the visible list
    modified,       \* self._modified
    showCompleted,  \* self._showCompleted
    showFuture,     \* self._showFuture
    searchText,     \* self._searchText
    autoSave,       \* the "auto_save" setting
    heap,           \* the live Task objects: identity -> [line, conn]
    watched,        \* the paths the file observer is armed on
    pending,        \* file-changed notifications queued for the controller
    disk,           \* path -> Readable(lines) or Unreadable
    doneSink,       \* the lines appended to the done file
    synced,         \* the content last loaded from or last saved to disk
    lastFilters,    \* the filters argument of the latest _applyFilters call
    lastOp,         \* the handler that ran last, with its arguments
    raised,         \* the exception that left it, "none" when it returned
    errorSig,       \* whether it emitted the error signal
    ret,            \* its return value
    ops             \* handler invocations so far

vars == <<fileTasks, fileFilename, tasksList, modified, showCompleted, showFuture,
          searchText, autoSave, heap, watched, pending, disk, doneSink, synced,
          lastFilters, lastOp, raised, errorSig, ret, ops>>

None == "None"
Ids == 1..(2 * MaxTasks)

Range(q) == {q[i] : i \in 1..Len(q)}
LinesOf(ts, h) == [i \in 1..Len(ts) |-> h[ts[i]].line]

\* the session as one record, so that handlers compose as the calls do
Session ==
    [tasks |-> fileTasks, filename |-> fileFilename, tasksList |-> tasksList,
     modified |-> modified, showCompleted |-> showCompleted, showFuture |-> showFuture,
     searchText |-> searchText, autoSave |-> autoSave, heap |-> heap,
     watched |-> watched, pending |-> pending, disk |-> disk, doneSink |-> doneSink,
     synced |-> synced, lastFilters |-> lastFilters, raised |-> "none",
     errorSig |-> FALSE, ret |-> None]

\* unreferenced Task objects are collected
Live(s) == Range(s.tasks) \cup Range(s.tasksList)

Commit(s, op, n) ==
    /\ fileTasks' = s.tasks
    /\ fileFilename' = s.filename
    /\ tasksList' = s.tasksList
    /\ modified' = s.modified
    /\ showCompleted' = s.showCompleted
    /\ showFuture' = s.showFuture
    /\ searchText' = s.searchText
    /\ autoSave' = s.autoSave
    /\ heap' = [id \in Live(s) |-> s.heap[id]]
    /\ watched' = s.watched
    /\ pending' = s.pending
    /\ disk' = s.disk
    /\ doneSink' = s.doneSink
    /\ synced' = s.synced
    /\ lastFilters' = s.lastFilters
    /\ raised' = s.raised
    /\ errorSig' = s.errorSig
    /\ ret' = s.ret
    /\ lastOp' = op
    /\ ops' = n

Raise(s, ex) == [s EXCEPT !.raised = ex]

\* the handler that ran, its argument, and the modified flag and the observer's
\* state (armed on the argument's path) it found
Op(name, arg, pre, armed) == [name |-> name, arg |-> arg, pre |-> pre, armed |-> armed]

\* ------------------------------------------------------------------ helpers
\* list.insert(i, x)
PyInsert(q, i, x) ==
    LET j == IF i < 0 THEN (IF i + Len(q) < 0 THEN 0 ELSE i + Len(q))
             ELSE (IF i > Len(q) THEN Len(q) ELSE i)
    IN SubSeq(q, 1, j) \o <<x>> \o SubSeq(q, j + 1, Len(q))

\* list.remove(x), x in the list: the first occurrence goes
PyRemove(q, x) ==
    LET k == CHOOSE i \in 1..Len(q) : q[i] = x /\ \A j \in 1..(i - 1) : q[j] # x
    IN SubSeq(q, 1, k - 1) \o SubSeq(q, k + 1, Len(q))

\* the n smallest identities no live object has
RECURSIVE FreshIds(_, _)
FreshIds(used, n) ==
    IF n = 0 THEN <<>>
    ELSE LET id == CHOOSE i \in Ids \ used : \A j \in Ids \ used : i <= j
         IN <<id>> \o FreshIds(used \cup {id}, n - 1)

\* tasklib.Task(text): a fresh object, its modified signal not yet connected
Task(line) == [line |-> line, conn |-> 0]

\* ------------------------------------------------------------------ File
\* a write of `content` to path p reaches the observer when p is watched
fileWrite(s, p, content, own) ==
    [s EXCEPT !.disk = [s.disk EXCEPT ![p] = content],
              !.pending = IF p \in s.watched
                          THEN s.pending \cup {[path |-> p, own |-> own]}
                          ELSE s.pending]

\* File.load(filename), the file readable: the tasks are parsed afresh
fileLoad(s, p) ==
    LET content == s.disk[p].lines
        ids == FreshIds(Range(s.tasksList), Len(content))
    IN [s EXCEPT !.tasks = ids,
                 !.filename = p,
                 !.synced = content,
                 !.heap = [id \in Range(s.tasksList) \cup Range(ids) |->
                             IF id \in Range(ids)
                             THEN Task(content[CHOOSE i \in 1..Len(ids) : ids[i] = id])
                             ELSE s.heap[id]]]

\* File.save(filename), the write succeeding
fileSave(s, p) ==
    LET content == LinesOf(s.tasks, s.heap)
    IN [fileWrite(s, p, Readable(content), TRUE) EXCEPT !.filename = p, !.synced = content]

\* File.saveDoneTask(task), the append succeeding
fileSaveDoneTask(s, id) == [s EXCEPT !.doneSink = Append(s.doneSink, s.heap[id].line)]

\* FileObserver.clear() and FileObserver.addPath(path)
observerClear(s) == [s EXCEPT !.watched = {}]
observerAddPath(s, p) == [s EXCEPT !.watched = s.watched \cup {p}]

\* ------------------------------------------------------------------ MainController
setModified(s, val) == [s EXCEPT !.modified = val]

taskModified(s) == setModified(s, TRUE)

showError(s) == [s EXCEPT !.errorSig = TRUE]

\* list.remove inside a loop over the same list: the element after a removed
\* one is skipped
RECURSIVE RemoveWhileIterating(_, _, _, _)
RemoveWhileIterating(f, q, i, h) ==
    IF i > Len(q) THEN q
    ELSE IF isMatch(f, h[q[i]].line) THEN RemoveWhileIterating(f, q, i + 1, h)
    ELSE RemoveWhileIterating(f, SubSeq(q, 1, i - 1) \o SubSeq(q, i + 1, Len(q)), i + 1, h)

\* mutant: the incomplete-only pass ignores an explicitly selected CompleteTasksFilter
applyFilterPasses_noPrecedence(filters, ts, s) ==
    LET t1 == filterTasks(filters, ts, s.heap)
        t2 == IF s.searchText # <<>>
              THEN filterTasks({SimpleTextFilter(s.searchText)}, t1, s.heap) ELSE t1
        t3 == IF ~s.showFuture THEN filterTasks({FutureFilter}, t2, s.heap) ELSE t2
        t4 == IF ~s.showCompleted
              THEN filterTasks({IncompleteTasksFilter}, t3, s.heap) ELSE t3
    IN t4

\* mutant: the future pass runs when future tasks are shown
applyFilterPasses_futureInverted(filters, ts, s) ==
    LET t1 == filterTasks(filters, ts, s.heap)
        t2 == IF s.searchText # <<>>
              THEN filterTasks({SimpleTextFilter(s.searchText)}, t1, s.heap) ELSE t1
        t3 == IF s.showFuture THEN filterTasks({FutureFilter}, t2, s.heap) ELSE t2
        t4 == IF ~s.showCompleted /\ (filters = {} \/ ~(CompleteTasksFilter \in filters))
              THEN filterTasks({IncompleteTasksFilter}, t3, s.heap) ELSE t3
    IN t4

\* mutant: the result is sorted, incomplete tasks first
applyFilterPasses_sorted(filters, ts, s) ==
    LET t1 == filterTasks(filters, ts, s.heap)
        t2 == IF s.searchText # <<>>
              THEN filterTasks({SimpleTextFilter(s.searchText)}, t1, s.heap) ELSE t1
        t3 == IF ~s.showFuture THEN filterTasks({FutureFilter}, t2, s.heap) ELSE t2
        t4 == IF ~s.showCompleted /\ (filters = {} \/ ~(CompleteTasksFilter \in filters))
              THEN filterTasks({IncompleteTasksFilter}, t3, s.heap) ELSE t3
    IN filterTasks({IncompleteTasksFilter}, t4, s.heap)
         \o filterTasks({CompleteTasksFilter}, t4, s.heap)

\* mutant: the incomplete-only pass removes from the list it iterates over
applyFilterPasses_inPlace(filters, ts, s) ==
    LET t1 == filterTasks(filters, ts, s.heap)
        t2 == IF s.searchText # <<>>
              THEN filterTasks({SimpleTextFilter(s.searchText)}, t1, s.heap) ELSE t1
        t3 == IF ~s.showFuture THEN filterTasks({FutureFilter}, t2, s.heap) ELSE t2
        t4 == IF ~s.showCompleted /\ (filters = {} \/ ~(CompleteTasksFilter \in filters))
              THEN RemoveWhileIterating(IncompleteTasksFilter, t3, 1, s.heap) ELSE t3
    IN t4

applyFilterPasses(filters, ts, s) ==
    LET t1 == filterTasks(filters, ts, s.heap)
        t2 == IF s.searchText # <<>>
              THEN filterTasks({SimpleTextFilter(s.searchText)}, t1, s.heap) ELSE t1
        t3 == IF ~s.showFuture THEN filterTasks({FutureFilter}, t2, s.heap) ELSE t2
        t4 == IF ~s.showCompleted /\ (filters = {} \/ ~(CompleteTasksFilter \in filters))
              THEN filterTasks({IncompleteTasksFilter}, t3, s.heap) ELSE t3
    IN t4

applyFilters(s, filters) ==
    [s EXCEPT !.tasksList = applyFilterPasses(filters, s.tasks, s),
              !.lastFilters = filters]

filterRequest(s, f) == applyFilters(s, {f})

onFilterSelectionChanged(s, filters) == applyFilters(s, filters)

setSearchText(s, txt) == applyFilters([s EXCEPT !.searchText = txt], {})

\* the setter stores the value, then self._showFutureChanged does not exist
setShowFuture(s, val) == Raise([s EXCEPT !.showFuture = val], "AttributeError")

\* the setter stores the value, then emits an argument on a signal that takes none
setShowCompleted(s, val) == Raise([s EXCEPT !.showCompleted = val], "TypeError")

\* the Task emits its modified signal once per connection
editTask(s, id, line) ==
    LET s1 == [s EXCEPT !.heap = [s.heap EXCEPT ![id].line = line]]
    IN IF s.heap[id].conn > 0 THEN taskModified(s1) ELSE s1

\* mutant: the new task's modified signal is not connected
newTask_noConnect(s, line, after) ==
    LET id == FreshIds(Live(s), 1)[1]
        task == Task(line)
        a == IF after.none THEN Len(s.tasksList) - 1 ELSE after.val
        s1 == [s EXCEPT !.heap = [i \in DOMAIN s.heap \cup {id} |->
                                     IF i = id THEN task ELSE s.heap[i]],
                        !.tasks = Append(s.tasks, id),
                        !.tasksList = PyInsert(s.tasksList, a + 1, id)]
    IN [setModified(s1, TRUE) EXCEPT !.ret = a + 1]

\* after is None (none) or an int (val)
newTask(s, line, after) ==
    LET id == FreshIds(Live(s), 1)[1]
        task == [Task(line) EXCEPT !.conn = 1]
        a == IF after.none THEN Len(s.tasksList) - 1 ELSE after.val
        s1 == [s EXCEPT !.heap = [i \in DOMAIN s.heap \cup {id} |->
                                     IF i = id THEN task ELSE s.heap[i]],
                        !.tasks = Append(s.tasks, id),
                        !.tasksList = PyInsert(s.tasksList, a + 1, id)]
    IN [setModified(s1, TRUE) EXCEPT !.ret = a + 1]

\* task is a Task (kind "task") or an index into the backing list (kind "int")
deleteTask(s, task) ==
    LET n == Len(s.tasks)
        inRange == task.kind = "int" /\ task.val >= -n /\ task.val < n
        id == IF task.kind = "task" THEN task.val
              ELSE IF ~inRange THEN 0
              ELSE IF task.val >= 0 THEN s.tasks[task.val + 1] ELSE s.tasks[n + task.val + 1]
    IN IF task.kind = "int" /\ ~inRange THEN Raise(s, "IndexError")
       ELSE IF id \notin Range(s.tasks) THEN Raise(s, "ValueError")
       ELSE applyFilters(setModified([s EXCEPT !.tasks = PyRemove(s.tasks, id)], TRUE), {})

\* the dialog of a save without filename: self.view is not an attribute of the
\* controller ("noview"), or the dialog is cancelled, or it returns a path
Dialogs == {"noview", "cancel"} \cup Paths

\* mutant: the write happens with the observer still armed
save_noClear(s, dlg, wr) ==
    LET s1 == s
        ask == s1.filename = NoFile
        fn == IF ~ask THEN s1.filename ELSE IF dlg \in Paths THEN dlg ELSE NoFile
    IN IF ask /\ dlg = "noview" THEN Raise(s1, "AttributeError")
       ELSE IF fn = NoFile THEN s1
       ELSE IF ~wr THEN Raise(s1, "WriteError")
       ELSE observerAddPath(setModified(fileSave(s1, fn), TRUE), fn)

\* mutant: the flag is cleared before the write is known to have succeeded
save_flagBeforeWrite(s, dlg, wr) ==
    LET s1 == observerClear(s)
        ask == s1.filename = NoFile
        fn == IF ~ask THEN s1.filename ELSE IF dlg \in Paths THEN dlg ELSE NoFile
    IN IF ask /\ dlg = "noview" THEN Raise(s1, "AttributeError")
       ELSE IF fn = NoFile THEN s1
       ELSE IF ~wr THEN Raise(setModified(s1, FALSE), "WriteError")
       ELSE observerAddPath(setModified(fileSave(s1, fn), TRUE), fn)

save(s, dlg, wr) ==
    LET s1 == observerClear(s)
        ask == s1.filename = NoFile
        fn == IF ~ask THEN s1.filename ELSE IF dlg \in Paths THEN dlg ELSE NoFile
    IN IF ask /\ dlg = "noview" THEN Raise(s1, "AttributeError")
       ELSE IF fn = NoFile THEN s1
       ELSE IF ~wr THEN Raise(s1, "WriteError")
       ELSE observerAddPath(setModified(fileSave(s1, fn), TRUE), fn)

auto_save(s, dlg, wr) == IF s.autoSave THEN save(s, dlg, wr) ELSE s

onFileUpdated(s, dlg, wr) == auto_save(setModified(s, TRUE), dlg, wr)

isComplete(s, id) == s.heap[id].line.complete

\* the loop of _archive_all_done_tasks over done[1..k]
RECURSIVE archiveLoop(_, _, _)
archiveLoop(s, done, k) ==
    IF k = 0 THEN s
    ELSE LET s1 == archiveLoop(s, done, k - 1)
             s2 == fileSaveDoneTask(s1, done[k])
         IN [s2 EXCEPT !.tasks = PyRemove(s2.tasks, done[k])]

\* mutant: the loop runs over the list it removes from, and skips the task
\* that follows a removed one
RECURSIVE archiveInPlace(_, _)
archiveInPlace(s, i) ==
    IF i > Len(s.tasks) THEN s
    ELSE IF isComplete(s, s.tasks[i])
         THEN LET s2 == fileSaveDoneTask(s, s.tasks[i])
              IN archiveInPlace([s2 EXCEPT !.tasks = PyRemove(s2.tasks, s.tasks[i])], i + 1)
         ELSE archiveInPlace(s, i + 1)

archive_all_done_tasks_inPlace(s, sinkOk, dlg, wr) ==
    onFileUpdated(archiveInPlace(s, 1), dlg, wr)

\* sinkOk: the number of saveDoneTask calls that succeed before one fails
archive_all_done_tasks(s, sinkOk, dlg, wr) ==
    LET done == SelectSeq(s.tasks, LAMBDA id : isComplete(s, id))
    IN IF sinkOk < Len(done) THEN Raise(archiveLoop(s, done, sinkOk), "SinkError")
       ELSE onFileUpdated(archiveLoop(s, done, Len(done)), dlg, wr)

canExit(s, dlg, wr) ==
    LET s1 == auto_save(s, dlg, wr)
    IN IF s1.raised # "none" THEN s1 ELSE [s1 EXCEPT !.ret = s1.modified]

loadFileToUI(s) == setModified(s, FALSE)

\* File(): no tasks, no filename
File(s) == [s EXCEPT !.tasks = <<>>, !.filename = NoFile, !.synced = <<>>]

new(s, dlg, wr) ==
    LET s1 == canExit(s, dlg, wr)
    IN IF s1.raised # "none" THEN s1
       ELSE IF s1.ret = TRUE THEN [loadFileToUI(File(s1)) EXCEPT !.ret = None]
       ELSE [s1 EXCEPT !.ret = None]

connectAll(s) ==
    [s EXCEPT !.heap = [id \in DOMAIN s.heap |->
                          IF id \in Range(s.tasks)
                          THEN [s.heap[id] EXCEPT !.conn = @ + 1] ELSE s.heap[id]]]

\* mutant: the except branch does not return
open_noReturn(s, p) ==
    LET s1 == observerClear(s)
    IN IF ~s1.disk[p].ok
       THEN connectAll(observerAddPath(loadFileToUI(showError(s1)), s1.filename))
       ELSE LET s2 == loadFileToUI(fileLoad(s1, p))
            IN connectAll(observerAddPath(s2, s2.filename))

\* mutant: a session with unsaved edits is not reloaded
open_keepsUnsaved(s, p) ==
    LET s1 == observerClear(s)
    IN IF ~s1.disk[p].ok THEN showError(s1)
       ELSE IF s1.modified THEN observerAddPath(s1, p)
       ELSE LET s2 == loadFileToUI(fileLoad(s1, p))
            IN connectAll(observerAddPath(s2, s2.filename))

open(s, p) ==
    LET s1 == observerClear(s)
    IN IF ~s1.disk[p].ok THEN showError(s1)
       ELSE LET s2 == loadFileToUI(fileLoad(s1, p))
            IN connectAll(observerAddPath(s2, s2.filename))

\* ------------------------------------------------------------------ filter specification
\* The session after start() has opened file "A" and the two toggles have been
\* set: every backing list of at most MaxFilterTasks parsed lines, all of it
\* visible, under every pair of toggles.
FilterInit ==
    \E n \in 0..MaxFilterTasks : \E ls \in [1..n -> AllLines] :
        /\ showCompleted \in BOOLEAN
        /\ showFuture \in BOOLEAN
        /\ fileTasks = [i \in 1..n |-> i]
        /\ heap = [i \in 1..n |-> [line |-> ls[i], conn |-> 1]]
        /\ tasksList = [i \in 1..n |-> i]
        /\ fileFilename = "A"
        /\ disk = [p \in Paths |-> IF p = "A" THEN Readable(ls) ELSE Unreadable]
        /\ synced = ls
        /\ watched = {"A"}
        /\ modified = FALSE
        /\ searchText = <<>>
        /\ autoSave = TRUE
        /\ pending = {}
        /\ doneSink = <<>>
        /\ lastFilters = {}
        /\ lastOp = Op("start", None, FALSE, FALSE)
        /\ raised = "none"
        /\ errorSig = FALSE
        /\ ret = None
        /\ ops = 0

FilterRequest ==
    \E f \in NodeFilters :
        Commit(filterRequest(Session, f), Op("filterRequest", None, modified, FALSE), ops)

OnFilterSelectionChanged ==
    \E fs \in FilterSets :
        Commit(onFilterSelectionChanged(Session, fs),
               Op("onFilterSelectionChanged", None, modified, FALSE), ops)

SetSearchText ==
    \E txt \in SearchTexts :
        Commit(setSearchText(Session, txt), Op("searchText", None, modified, FALSE), ops)

FilterNext ==
    \/ FilterRequest
    \/ OnFilterSelectionChanged
    \/ SetSearchText

FilterSpec == FilterInit /\ [][FilterNext]_vars

\* ------------------------------------------------------------------ controller specification
LOpen == Line(<<"A", "b">>, FALSE, FALSE, TRUE)
LDone == Line(<<"b">>, TRUE, FALSE, TRUE)
LFuture == Line(<<"b">>, FALSE, TRUE, FALSE)

\* what the files hold when the controller is constructed
InitialA == Readable(<<LOpen, LDone, LDone>>)
InitialB == Unreadable
\* what another program leaves in a file: new content, or no readable file
ExternalContents == {Readable(<<LFuture, LDone>>), Unreadable}
\* the text a task is created with, and the texts a task is edited to
NewTexts == {LOpen}
EditTexts == {LOpen, LDone}
\* the positions a task is created at: None, or after the first visible task
Afters == {[none |-> TRUE, val |-> 0], [none |-> FALSE, val |-> 0]}

\* MainController.__init__
Init ==
    /\ fileTasks = <<>>
    /\ fileFilename = NoFile
    /\ tasksList = <<>>
    /\ modified = FALSE
    /\ showCompleted = TRUE
    /\ showFuture = TRUE
    /\ searchText = <<>>
    /\ autoSave \in BOOLEAN
    /\ heap = <<>>
    /\ watched = {}
    /\ pending = {}
    /\ disk = [p \in Paths |-> IF p = "A" THEN InitialA ELSE InitialB]
    /\ doneSink = <<>>
    /\ synced = <<>>
    /\ lastFilters = {}
    /\ lastOp = Op("init", None, FALSE, FALSE)
    /\ raised = "none"
    /\ errorSig = FALSE
    /\ ret = None
    /\ ops = 0

Step == ops < MaxOps

NewTask ==
    /\ Step
    /\ Len(fileTasks) < MaxTasks /\ Len(tasksList) < MaxTasks
    /\ \E line \in NewTexts, after \in Afters :
        Commit(newTask(Session, line, after), Op("newTask", None, modified, FALSE), ops + 1)

DeleteTask ==
    /\ Step
    /\ \E task \in {[kind |-> "int", val |-> i] : i \in -1..Len(fileTasks)}
                     \cup {[kind |-> "task", val |-> id] : id \in DOMAIN heap} :
        Commit(deleteTask(Session, task), Op("deleteTask", task.kind, modified, FALSE), ops + 1)

EditTask ==
    /\ Step
    /\ \E id \in DOMAIN heap, line \in EditTexts :
        /\ heap[id].line # line
        /\ Commit(editTask(Session, id, line), Op("editTask", None, modified, FALSE), ops + 1)

Archive ==
    /\ Step
    /\ \E sinkOk \in 0..MaxTasks, dlg \in Dialogs, wr \in BOOLEAN :
        Commit(archive_all_done_tasks(Session, sinkOk, dlg, wr),
               Op("archive", None, modified, FALSE), ops + 1)

Save ==
    /\ Step
    /\ \E dlg \in Dialogs, wr \in BOOLEAN :
        Commit(save(Session, dlg, wr),
               Op("save", None, modified, fileFilename \in watched), ops + 1)

New ==
    /\ Step
    /\ \E dlg \in Dialogs, wr \in BOOLEAN :
        Commit(new(Session, dlg, wr), Op("new", None, modified, FALSE), ops + 1)

Open ==
    /\ Step
    /\ \E p \in Paths :
        Commit(open(Session, p), Op("open", p, modified, p \in watched), ops + 1)

\* another program writes, replaces or removes a file
ExternalWrite ==
    /\ Step
    /\ \E p \in Paths, c \in ExternalContents :
        /\ disk[p] # c
        /\ Commit(fileWrite(Session, p, c, FALSE),
                  Op("externalWrite", p, modified, p \in watched), ops + 1)

\* the observer's fileChangetSig reaches its slot, open
FileChanged ==
    /\ Step
    /\ \E n \in pending :
        Commit(open([Session EXCEPT !.pending = pending \ {n}], n.path),
               Op("fileChanged", n.path, modified, n.path \in watched), ops + 1)

Next ==
    \/ NewTask
    \/ DeleteTask
    \/ EditTask
    \/ Archive
    \/ Save
    \/ New
    \/ Open
    \/ ExternalWrite
    \/ FileChanged

Spec == Init /\ [][Next]_vars

\* ------------------------------------------------------------------ view specification
\* The handlers the task view calls, on the constructed controller: files are
\* opened, tasks created at every kind of position and deleted, a filter is
\* selected, the search text and the two toggles are set.  The setters and the
\* filter selection do not count as operations: they change no list of tasks.
AftersAll == Afters \cup {[none |-> FALSE, val |-> -1], [none |-> FALSE, val |-> MaxTasks]}

NewTaskAt ==
    /\ Step
    /\ Len(fileTasks) < MaxTasks /\ Len(tasksList) < MaxTasks
    /\ \E line \in NewTexts, after \in AftersAll :
        Commit(newTask(Session, line, after), Op("newTask", None, modified, FALSE), ops + 1)

SetShowFuture ==
    \E val \in BOOLEAN :
        Commit(setShowFuture(Session, val), Op("showFuture", None, modified, FALSE), ops)

SetShowCompleted ==
    \E val \in BOOLEAN :
        Commit(setShowCompleted(Session, val), Op("showCompleted", None, modified, FALSE), ops)

ViewNext ==
    \/ Open
    \/ NewTaskAt
    \/ DeleteTask
    \/ FilterRequest
    \/ OnFilterSelectionChanged
    \/ SetSearchText
    \/ SetShowFuture
    \/ SetShowCompleted

ViewSpec == Init /\ [][ViewNext]_vars

\* ------------------------------------------------------------------ claims on _applyFilters
\* the visible list is the output of the _applyFilters call that ended the last handler
Derived ==
    /\ lastOp.name \in {"filterRequest", "onFilterSelectionChanged", "searchText", "deleteTask"}
    /\ raised = "none"

LineOf(t) == heap[t].line
MatchesFilterSet(t) == \A f \in lastFilters : isMatch(f, LineOf(t))
MatchesSearch(t) == searchText = <<>> \/ isMatch(SimpleTextFilter(searchText), LineOf(t))
NotHiddenFuture(t) == showFuture \/ ~LineOf(t).future

Pos(q, x) == CHOOSE i \in 1..Len(q) : q[i] = x
IsSubsequence(q, r) ==
    /\ \A i, j \in 1..Len(q) : i # j => q[i] # q[j]
    /\ Range(q) \subseteq Range(r)
    /\ \A i, j \in 1..Len(q) : i < j => Pos(r, q[i]) < Pos(r, q[j])

\* C3: with showCompleted false and a CompleteTasksFilter in the filter set handed
\* to _applyFilters, every completed backing task that matches the filter set, the
\* search text and the future toggle is in the visible list.
C3_CompletionPrecedence ==
    (Derived /\ ~showCompleted /\ CompleteTasksFilter \in lastFilters) =>
        \A t \in Range(fileTasks) :
            (LineOf(t).complete /\ MatchesFilterSet(t) /\ MatchesSearch(t) /\ NotHiddenFuture(t))
                => t \in Range(tasksList)

C3_Witness ==
    /\ Derived /\ ~showCompleted /\ CompleteTasksFilter \in lastFilters
    /\ \E t \in Range(tasksList) : LineOf(t).complete
    /\ \E t \in Range(fileTasks) : ~LineOf(t).complete

\* C4: the visible list _applyFilters produces holds exactly the backing tasks that
\* satisfy every filter of the set, the search text when there is one, the future
\* toggle, and (showCompleted or CompleteTasksFilter in the set or incomplete); with
\* no filters, no search text and both toggles true it is the whole backing list.
C4_VisibleExactly ==
    Derived =>
        /\ Range(tasksList) =
              {t \in Range(fileTasks) :
                  /\ MatchesFilterSet(t)
                  /\ MatchesSearch(t)
                  /\ NotHiddenFuture(t)
                  /\ (showCompleted \/ CompleteTasksFilter \in lastFilters
                        \/ ~LineOf(t).complete)}
        /\ (lastFilters = {} /\ searchText = <<>> /\ showFuture /\ showCompleted)
              => tasksList = fileTasks

C4_Witness ==
    /\ Derived /\ lastFilters # {} /\ searchText # <<>> /\ ~showFuture /\ ~showCompleted
    /\ tasksList # <<>>
    /\ \E t \in Range(fileTasks) \ Range(tasksList) : MatchesFilterSet(t) /\ ~MatchesSearch(t)
    /\ \E t \in Range(fileTasks) \ Range(tasksList) : MatchesFilterSet(t) /\ LineOf(t).future

\* C5: the visible list _applyFilters produces is a subsequence of the backing list:
\* no task twice, and visible tasks in the backing list's relative order.
C5_OrderPreserved == Derived => IsSubsequence(tasksList, fileTasks)

C5_Witness ==
    /\ Derived /\ Len(fileTasks) = 3
    /\ tasksList = <<fileTasks[1], fileTasks[3]>>
    /\ LineOf(fileTasks[1]).complete /\ ~LineOf(fileTasks[3]).complete

\* C6: the filter passes run on their own result give that result again, and
\* _applyFilters run again with the same filter set, search text and toggles
\* leaves the visible list as it is.
C6_Idempotent ==
    Derived =>
        /\ applyFilterPasses(lastFilters, tasksList, Session) = tasksList
        /\ applyFilters(Session, lastFilters).tasksList = tasksList

C6_Witness ==
    /\ Derived /\ ~showCompleted /\ lastFilters = {ProjectFilter}
    /\ Len(tasksList) = 1 /\ Len(fileTasks) = 3
    /\ LineOf(fileTasks[1]).complete /\ LineOf(fileTasks[2]).complete

\* ------------------------------------------------------------------ claims on the file synchronisation
Lines == LinesOf(fileTasks, heap)
Without(q, S) == SelectSeq(q, LAMBDA x : x \notin S)
Only(q, S) == SelectSeq(q, LAMBDA x : x \in S)
CompleteIds == {id \in Range(fileTasks) : heap[id].line.complete}

\* C1: no file-changed notification queued for the controller comes from a
\* write of save() itself: save() writes with the observer cleared and arms
\* it again only after the write.
C1_NoOwnNotification == \A n \in pending : ~n.own

C1_Witness ==
    /\ lastOp.name = "save" /\ lastOp.armed /\ lastOp.pre /\ raised = "none"
    /\ disk[fileFilename] = Readable(Lines)
    /\ disk[fileFilename] # InitialA
    /\ fileFilename \in watched
    /\ pending = {}

\* C2: an open(path) whose load fails emits the error signal, returns, and
\* leaves the backing list, the bound filename, the modified flag and the
\* visible list as they were.
C2_FailedOpenLeavesSession ==
    [][(lastOp'.name \in {"open", "fileChanged"} /\ ~disk[lastOp'.arg].ok) =>
          /\ errorSig' /\ raised' = "none"
          /\ fileTasks' = fileTasks
          /\ LinesOf(fileTasks', heap') = Lines
          /\ fileFilename' = fileFilename
          /\ modified' = modified
          /\ tasksList' = tasksList]_vars

C2_Witness ==
    /\ lastOp.name = "open" /\ lastOp.arg = "B" /\ errorSig
    /\ fileFilename = "A" /\ modified /\ Lines # synced
    /\ tasksList # <<>>

\* C7: _archive_all_done_tasks hands each task it removes to the done sink,
\* once and before removing it, hands over no other task, and keeps the rest
\* in order; when no saveDoneTask fails, the tasks removed are exactly the
\* complete ones, so the list is left with exactly the incomplete tasks.
C7_ArchiveMovesCompleted ==
    [][(lastOp'.name = "archive") =>
          LET left == Range(fileTasks')
              gone == Without(fileTasks, left)
          IN /\ fileTasks' = Only(fileTasks, left)
             /\ LinesOf(fileTasks', heap') = LinesOf(Only(fileTasks, left), heap)
             /\ Range(gone) \subseteq CompleteIds
             /\ doneSink' = doneSink \o LinesOf(gone, heap)
             /\ (raised' # "SinkError") => fileTasks' = Without(fileTasks, CompleteIds)]_vars

C7_Witness ==
    /\ lastOp.name = "archive" /\ raised = "none"
    /\ Len(fileTasks) = 2 /\ Len(doneSink) = 1
    /\ doneSink[1].complete
    /\ \A id \in Range(fileTasks) : ~heap[id].line.complete

\* C8: whenever the backing list differs from the content last saved to or
\* last loaded from disk, modified is true.
C8_DivergenceImpliesModified == (Lines # synced) => modified

\* C9: a save() called with modified true whose write fails leaves modified
\* true and the backing list as it was.
C9_FailedSaveKeepsModified ==
    [][(lastOp'.name = "save" /\ modified /\ raised' = "WriteError") =>
          /\ modified'
          /\ fileTasks' = fileTasks
          /\ LinesOf(fileTasks', heap') = Lines]_vars

C9_Witness ==
    /\ lastOp.name = "save" /\ raised = "WriteError" /\ lastOp.pre
    /\ modified /\ Lines # synced
    /\ fileFilename \in Paths
    /\ disk[fileFilename].lines = synced

\* C10: a file-changed notification that arrives while the observer is armed
\* on its path, the file readable, reloads it: the backing list is then the
\* content on disk, bound to that path, and modified is false, whatever was
\* edited in memory before.
C10_ReloadReplacesList ==
    [][(lastOp'.name = "fileChanged" /\ lastOp'.arg \in watched /\ disk[lastOp'.arg].ok) =>
          /\ LinesOf(fileTasks', heap') = disk'[lastOp'.arg].lines
          /\ disk' = disk
          /\ fileFilename' = lastOp'.arg
          /\ ~modified']_vars

C10_Witness ==
    /\ lastOp.name = "fileChanged" /\ lastOp.armed /\ lastOp.pre
    /\ ~errorSig /\ ~modified
    /\ Readable(Lines) = disk[fileFilename]
    /\ disk[fileFilename] # InitialA

\* C11: right after a save() whose write succeeded, modified is false.
C11_SavedMeansUnmodified ==
    (/\ lastOp.name = "save" /\ raised = "none"
     /\ fileFilename \in Paths
     /\ disk[fileFilename] = Readable(Lines)) => ~modified

\* ------------------------------------------------------------------ claims on the visible list
StructuralOps == {"newTask", "deleteTask", "archive", "open", "fileChanged", "new"}

\* C12: after newTask, deleteTask, archive, a load through open (called or
\* delivered by the observer) or new() has run to its end, every task of the
\* visible list is a member of the backing list.
C12_VisibleWithinBacking ==
    (lastOp.name \in StructuralOps /\ raised = "none" /\ ~errorSig) =>
        Range(tasksList) \subseteq Range(fileTasks)

\* C13: once a filter set has been selected in the tree (filterRequest or a
\* filter selection change), the re-derivation that deleteTask or a change of
\* the search text makes next yields only tasks satisfying that filter set.
C13_SelectionKept ==
    [][(/\ lastOp.name \in {"filterRequest", "onFilterSelectionChanged"}
        /\ lastOp'.name \in {"deleteTask", "searchText"}
        /\ raised' = "none") =>
          \A t \in Range(tasksList') : \A f \in lastFilters : isMatch(f, heap'[t].line)]_vars

\* ------------------------------------------------------------------ claims on the task signals
\* C14: every task of the backing list, parsed by open or created by newTask,
\* has its modified signal connected to _taskModified exactly once, so that an
\* edit of it calls _taskModified once and leaves modified true.
C14_ConnectedOnce ==
    \A id \in Range(fileTasks) :
        /\ heap[id].conn = 1
        /\ \A line \in EditTexts : editTask(Session, id, line).modified

C14_Witness ==
    /\ lastOp.name = "editTask" /\ ~lastOp.pre /\ modified
    /\ fileFilename = "A"
    /\ disk["A"] # InitialA /\ disk["A"].ok
    /\ Len(synced) = Len(disk["A"].lines)
    /\ \A id \in Range(fileTasks) : heap[id].conn = 1

\* ------------------------------------------------------------------ claims on the observer
\* C15: between handler calls, whenever a file is bound the observer is armed
\* on its path, also after a load or a write that failed.
C15_BoundFileWatched == (fileFilename \in Paths) => (fileFilename \in watched)

\* C16: the observer is armed on no path but the bound file's; with no file
\* bound (after new()) it is armed on nothing.
C16_OnlyBoundFileWatched == \A p \in watched : p = fileFilename

\* ------------------------------------------------------------------ claims on deleteTask and new
\* C17: deleteTask of a Task that is not in the backing list raises nothing and
\* leaves the backing list, the visible list and modified as they are.
C17_AbsentDeleteSilent ==
    \A id \in DOMAIN heap \ Range(fileTasks) :
        LET r == deleteTask(Session, [kind |-> "task", val |-> id])
        IN /\ r.raised = "none"
           /\ r.tasks = fileTasks
           /\ r.tasksList = tasksList
           /\ r.modified = modified

\* C20: a new() that replaces a list holding unsaved edits by the empty unbound
\* one has saved them first: new() drops the list only when the lines it held
\* are the lines last loaded or saved, or are written by its own auto-save.
C20_NewKeepsUnsaved ==
    [][(lastOp'.name = "new" /\ fileTasks # <<>> /\ fileTasks' = <<>>) =>
          \/ Lines = synced
          \/ \E p \in Paths : disk'[p] = Readable(Lines) /\ disk'[p] # disk[p]]_vars

\* ------------------------------------------------------------------ claims on the view handlers
\* C18: newTask adds one task, an object that did not exist before, at the end
\* of the backing list and once to the visible list, and returns the index at
\* which the task sits in the visible list, whatever `after` is.
C18_NewTaskIndex ==
    [][(lastOp'.name = "newTask") =>
          LET added == Range(fileTasks') \ Range(fileTasks)
          IN /\ Cardinality(added) = 1
             /\ added \cap DOMAIN heap = {}
             /\ fileTasks' = fileTasks \o <<CHOOSE id \in added : TRUE>>
             /\ Len(tasksList') = Len(tasksList) + 1
             /\ ret' \in 0..(Len(tasksList') - 1)
             /\ tasksList'[ret' + 1] \in added]_vars

\* C19: a toggle setter returns without raising and stores the value, and the
\* visible list it leaves shows no future-due task once showFuture is false and
\* no completed task once showCompleted is false, unless the selected filter
\* set has a CompleteTasksFilter.
C19_ToggleApplied ==
    /\ (lastOp.name \in {"showFuture", "showCompleted"}) => raised = "none"
    /\ (lastOp.name = "showFuture" /\ ~showFuture) =>
          \A t \in Range(tasksList) : ~LineOf(t).future
    /\ (lastOp.name = "showCompleted" /\ ~showCompleted
          /\ CompleteTasksFilter \notin lastFilters) =>
          \A t \in Range(tasksList) : ~LineOf(t).complete

====
